---- MODULE Spec2Model ----
(***************************************************************************)
(* MQTTDatabaseBridge (src/mqtt_database_bridge.py): the reload loop       *)
(* (run), subscription reconcile (_sync_subscriptions), handler            *)
(* resolution (_load_callback) and message dispatch (_on_message), run     *)
(* against a file system and a transport that change independently.        *)
(***************************************************************************)
EXTENDS Integers, FiniteSets, Sequences, TLC

\* ---------------------------------------------------------------- bounds
MaxMtime == 2
MaxEvents == 2

\* ------------------------------------------------------------- constants
Topics == {"t1", "t2"}
Paths == {"h1"}
Mtimes == 1..MaxMtime

\* A "qos" key that a topic entry does not hold.
Absent == -1
\* What the transport records for a topic it holds no subscription for.
NoSub == -1

\* dict.get("qos", 0) of a topic entry.
QosOf(entry) == IF entry.qos = Absent THEN 0 ELSE entry.qos

\* A "callback_path" key that a topic entry does not hold.
\* `not topic_config`: a missing topic (None) or an empty object {} is falsy.
NoPath == ""
Falsy_Never(entry) == FALSE
Falsy(entry) == entry.callback_path = NoPath /\ entry.qos = Absent

\* paho's subscribe raises ValueError for a QoS outside 0..2.
ValidQos(q) == q \in 0..2

\* The "topics" objects the configuration file takes in this model.
NoTopics == [t \in {} |-> [callback_path |-> NoPath, qos |-> Absent]]
CfgOne == "t1" :> [callback_path |-> "h1", qos |-> 1]
CfgTwo == ("t1" :> [callback_path |-> "h1", qos |-> Absent])
          @@ ("t2" :> [callback_path |-> "h1", qos |-> 2])
CfgOdd == "t2" :> [callback_path |-> NoPath, qos |-> 1]
CfgBadQos == ("t1" :> [callback_path |-> NoPath, qos |-> Absent])
             @@ ("t2" :> [callback_path |-> "h1", qos |-> 3])
Configs == {NoTopics, CfgOne, CfgTwo, CfgOdd, CfgBadQos}

\* What a handler file holds: nothing (no file), code that fails to import,
\* code that fails the signature check, or a valid callback that returns
\* Ok, returns Err, raises, or returns something that is no Result.
HandlerContents == {"missing", "broken", "invalid", "ok", "err", "raise", "none"}
ValidContents == {"ok", "err", "raise", "none"}

\* The module-level default callback: logs and returns Ok(True).
callback == [id |-> 0, beh |-> "ok", src |-> 0]
\* No callable (None).
NoFunc == [id |-> -1, beh |-> "none", src |-> 0]

VARIABLES
    cfgFile,            \* the configuration file: [state, mtime, content]
    hFile,              \* handler files: path -> [mtime, content]
    connected,          \* the client holds a connection to the broker
    events,             \* number of file writes and network events so far
    touched,            \* path -> written since _load_callback last stat'ed it
    config,             \* self.config (its "topics" object)
    last_config_mtime,  \* self.last_config_mtime
    subscribed_topics,  \* self.subscribed_topics
    transport,          \* the client's subscriptions: topic -> qos or NoSub
    runPc,              \* position of run()
    syncOps,            \* transport calls issued by the current reconcile
    syncStart,          \* subscribed_topics when the current reconcile began
    lastKeys,           \* [valid, keys]: desired set at the last reconcile return
    repeat,             \* the current reconcile began with that same desired set
    crashCause,         \* the exception that ended run(), or "none"
    lastGood,           \* the result of the last successful _load_config
    callback_cache,     \* self.callback_cache: path -> [func, mtime]
    msgPc,              \* position of _on_message on the transport thread
    topic_config,       \* _on_message's local topic_config
    current_mtime,      \* _load_callback's local current_mtime
    cb,                 \* the callable _load_callback returned
    loadCount,          \* modules loaded and cached so far (names the callables)
    resolved,           \* what the running _load_callback did
    lastRet,            \* path -> the callable the last _load_callback returned
    outcome,            \* how the last _on_message ended
    module,             \* the module handed to _validate_callback_signature
    verdict             \* what _validate_callback_signature returned for it

envVars == <<cfgFile, hFile, connected, events, touched>>
runVars == <<config, last_config_mtime, subscribed_topics, transport, runPc,
             syncOps, syncStart, lastKeys, repeat, crashCause, lastGood>>
msgVars == <<callback_cache, msgPc, topic_config, current_mtime, cb, loadCount,
             resolved, lastRet, outcome>>
valVars == <<module, verdict>>
vars == <<envVars, runVars, msgVars, valVars>>

NoEntry == [callback_path |-> NoPath, qos |-> Absent]
NoCache == [func |-> NoFunc, mtime |-> 0]
NoOutcome == [kind |-> "none", afterRaise |-> FALSE, elapsed |-> FALSE]
NoResolve == [kind |-> "none", path |-> NoPath, cache |-> [p \in {} |-> NoCache],
              untouched |-> FALSE, stale |-> FALSE, prev |-> NoFunc, loads |-> 0]

\* ------------------------------------------- _validate_callback_signature
\* A loaded module as _validate_callback_signature inspects it:
\*   attr     what the module holds under the name callback
\*   params   list(sig.parameters.keys())
\*   kind     the kind of the last parameter (the others are
\*            POSITIONAL_OR_KEYWORD)
\*   default  the last parameter carries a default value
\*   returns  the return annotation: its get_origin, and get_origin and
\*            get_args(...)[0] of each of its get_args
TypeArg(origin, arg) == [origin |-> origin, arg |-> arg]
Annotation(origin, args) == [origin |-> origin, args |-> args]
ResultBoolStr == Annotation("Union", <<TypeArg("Ok", "bool"), TypeArg("Err", "str")>>)
Annotations ==
    { ResultBoolStr,
      Annotation("Union", <<TypeArg("Err", "str"), TypeArg("Ok", "bool")>>),
      Annotation("Union", <<TypeArg("Ok", "int"), TypeArg("Err", "str")>>),
      Annotation("Union", <<TypeArg("Ok", "bool"), TypeArg("Err", "bytes")>>),
      Annotation("Union", <<TypeArg("None", "int"), TypeArg("None", "str")>>),
      Annotation("Union", <<TypeArg("Ok", "bool"), TypeArg("Err", "str"),
                            TypeArg("None", "NoneType")>>),
      Annotation("Ok", <<>>),
      Annotation("None", <<>>) }
expected_params == <<"client", "userdata", "msg">>
ParamLists ==
    { expected_params,
      <<"client", "userdata">>,
      <<"userdata", "client", "msg">>,
      <<"client", "userdata", "msg", "extra">> }
ParamKinds == {"POSITIONAL_OR_KEYWORD", "POSITIONAL_ONLY", "KEYWORD_ONLY",
               "VAR_POSITIONAL", "VAR_KEYWORD"}
\* The sample handler src/callback/testing.py.
HandlerModule ==
    [attr |-> "function", params |-> expected_params,
     kind |-> "POSITIONAL_OR_KEYWORD", default |-> FALSE, returns |-> ResultBoolStr]
\* The modules a handler file can produce: no callback attribute, a
\* callback that is no function, or a function of some signature.  A
\* variadic parameter cannot carry a default.
Modules ==
    { [HandlerModule EXCEPT !.attr = a] : a \in {"absent", "value"} }
    \cup
    { m \in [attr : {"function"}, params : ParamLists, kind : ParamKinds,
             default : BOOLEAN, returns : Annotations] :
        m.kind \in {"VAR_POSITIONAL", "VAR_KEYWORD"} => ~m.default }

\* _validate_callback_signature(module), lines 55-107, check by check.
ValidateCallbackSignature(m) ==
    IF m.attr = "absent" THEN FALSE
    ELSE IF m.attr # "function" THEN FALSE
    ELSE IF m.params # expected_params THEN FALSE
    ELSE IF m.default THEN FALSE
    ELSE IF m.returns.origin # "Union" THEN FALSE
    ELSE IF Len(m.returns.args) # 2 THEN FALSE
    ELSE IF m.returns.args[1].origin # "Ok" \/ m.returns.args[2].origin # "Err"
    THEN FALSE
    ELSE IF m.returns.args[1].arg # "bool" \/ m.returns.args[2].arg # "str"
    THEN FALSE
    ELSE TRUE

\* __init__ up to line 25 of a bridge started on the configuration CfgOne
\* with a valid handler file: the configuration has been loaded; line 26
\* (the stat of the file) is the first step of the model.
Constructed ==
    /\ cfgFile = [state |-> "ok", mtime |-> 1, content |-> CfgOne]
    /\ config = CfgOne
    /\ lastGood = CfgOne
    /\ hFile = [p \in Paths |-> [mtime |-> 1, content |-> "ok"]]
    /\ connected = TRUE
    /\ events = 0
    /\ touched = [p \in Paths |-> FALSE]
    /\ last_config_mtime = 0
    /\ subscribed_topics = {}
    /\ transport = [t \in Topics |-> NoSub]
    /\ runPc = "ctor"
    /\ syncOps = {}
    /\ syncStart = {}
    /\ lastKeys = [valid |-> FALSE, keys |-> {}]
    /\ repeat = FALSE
    /\ crashCause = "none"
    /\ callback_cache = [p \in {} |-> NoCache]
    /\ msgPc = "idle"
    /\ topic_config = NoEntry
    /\ current_mtime = 0
    /\ cb = NoFunc
    /\ loadCount = 0
    /\ resolved = NoResolve
    /\ lastRet = [p \in Paths |-> NoFunc]
    /\ outcome = NoOutcome

Init ==
    /\ Constructed
    /\ module = HandlerModule
    /\ verdict = "none"

\* ----------------------------------------------------------- environment
\* Somebody writes, replaces or deletes the configuration file.
EditConfig ==
    /\ events < MaxEvents
    /\ events' = events + 1
    /\ \E st \in {"ok", "malformed", "missing"}, m \in Mtimes, c \in Configs :
        /\ m # cfgFile.mtime
        /\ st # "ok" => c = NoTopics
        /\ cfgFile' = [state |-> st, mtime |-> m, content |-> c]
    /\ UNCHANGED <<hFile, connected, touched>>
    /\ UNCHANGED <<runVars, msgVars>>
    /\ UNCHANGED valVars

\* Somebody writes, replaces or deletes a handler file.
EditHandler ==
    /\ events < MaxEvents
    /\ events' = events + 1
    /\ \E p \in Paths, m \in Mtimes, c \in HandlerContents :
        /\ m # hFile[p].mtime
        /\ hFile' = [hFile EXCEPT ![p] = [mtime |-> m, content |-> c]]
        /\ touched' = [touched EXCEPT ![p] = TRUE]
    /\ UNCHANGED <<cfgFile, connected>>
    /\ UNCHANGED <<runVars, msgVars>>
    /\ UNCHANGED valVars

\* The connection to the broker drops or comes back.
Network ==
    /\ events < MaxEvents
    /\ events' = events + 1
    /\ connected' = ~connected
    /\ UNCHANGED <<cfgFile, hFile, touched>>
    /\ UNCHANGED <<runVars, msgVars>>
    /\ UNCHANGED valVars

\* ------------------------------------------------------------------ run
\* An exception leaves run(): the loop is over.
Crash(cause) ==
    /\ runPc' = "crashed"
    /\ crashCause' = cause

\* __init__ line 26: self.last_config_mtime = os.path.getmtime(config_path).
CtorStat ==
    /\ runPc = "ctor"
    /\ IF cfgFile.state = "missing"
       THEN Crash("ctor") /\ UNCHANGED last_config_mtime
       ELSE /\ last_config_mtime' = cfgFile.mtime
            /\ runPc' = "check"
            /\ UNCHANGED crashCause
    /\ UNCHANGED <<config, subscribed_topics, transport, syncOps,
                   syncStart, lastKeys, repeat, lastGood>>
    /\ UNCHANGED <<envVars, msgVars>>
    /\ UNCHANGED valVars

\* run line 196: if os.path.getmtime(self.config_path) > self.last_config_mtime.
HasChanged == cfgFile.mtime > last_config_mtime

RunCheck ==
    /\ runPc = "check"
    /\ IF cfgFile.state = "missing"
       THEN Crash("getmtime")
       ELSE /\ runPc' = IF HasChanged THEN "load" ELSE "sync"
            /\ UNCHANGED crashCause
    /\ UNCHANGED <<config, last_config_mtime, subscribed_topics, transport,
                   syncOps, syncStart, lastKeys, repeat, lastGood>>
    /\ UNCHANGED <<envVars, msgVars>>
    /\ UNCHANGED valVars

\* _load_config: open and json.load; raises on a missing or malformed file,
\* and returns the parsed object otherwise.
LoadConfig_Swallows == [raises |-> FALSE, value |-> cfgFile.content]
LoadConfig == [raises |-> cfgFile.state # "ok", value |-> cfgFile.content]

\* run line 198: self.config = self._load_config().  The assignment is not
\* reached when _load_config raises; nothing in run() catches that.
RunLoad ==
    /\ runPc = "load"
    /\ IF LoadConfig.raises
       THEN Crash("load_config") /\ UNCHANGED config
       ELSE /\ config' = LoadConfig.value
            /\ runPc' = "stat"
            /\ UNCHANGED crashCause
    /\ lastGood' = IF cfgFile.state = "ok" THEN cfgFile.content ELSE lastGood
    /\ UNCHANGED <<last_config_mtime, subscribed_topics, transport,
                   syncOps, syncStart, lastKeys, repeat>>
    /\ UNCHANGED <<envVars, msgVars>>
    /\ UNCHANGED valVars

\* run line 199: self.last_config_mtime = os.path.getmtime(self.config_path).
RunStat ==
    /\ runPc = "stat"
    /\ IF cfgFile.state = "missing"
       THEN Crash("getmtime") /\ UNCHANGED last_config_mtime
       ELSE /\ last_config_mtime' = cfgFile.mtime
            /\ runPc' = "sync"
            /\ UNCHANGED crashCause
    /\ UNCHANGED <<config, subscribed_topics, transport, syncOps,
                   syncStart, lastKeys, repeat, lastGood>>
    /\ UNCHANGED <<envVars, msgVars>>
    /\ UNCHANGED valVars

\* ---------------------------------------------------- _sync_subscriptions
\* Line 179: current_topics = set(self.config.get("topics", {}).keys()).
CurrentTopics == DOMAIN config

\* Line 181: self.subscribed_topics - current_topics.
ToRemove_KeepsAll == {}
ToRemove == subscribed_topics \ CurrentTopics

\* Line 186: current_topics - self.subscribed_topics, with `subscribed` what
\* the first loop left of self.subscribed_topics.
ToAdd_All(subscribed) == CurrentTopics
ToAdd(subscribed) == CurrentTopics \ subscribed

\* The calls on `topics` that the transport accepts.  While the client is
\* not connected it refuses them all and reports that in its return value,
\* which _sync_subscriptions does not read.
Accepted(topics) == IF connected THEN topics ELSE {}

\* What the transport holds after client.unsubscribe(t) for the topics of
\* removed and client.subscribe(t, qos) for the topics of added.
TransportAfter(removed, added) ==
    [t \in Topics |-> IF t \in Accepted(added) THEN QosOf(config[t])
                      ELSE IF t \in Accepted(removed) THEN NoSub
                      ELSE transport[t]]

\* The transport calls of one reconcile: unsubscribe(topic) for each topic
\* of removed, subscribe(topic, qos) for each topic of added.
Calls(removed, added) ==
    {[op |-> "unsubscribe", topic |-> t, qos |-> 0] : t \in removed}
    \cup {[op |-> "subscribe", topic |-> t, qos |-> QosOf(config[t])] : t \in added}

\* _sync_subscriptions, lines 179-190, as run() calls it at line 202.  The
\* first loop unsubscribes and removes every topic of to_remove; the second
\* subscribes and adds the topics of to_add in the set's iteration order,
\* until it is through or subscribe raises (a QoS outside 0..2), which ends
\* run() with the topics before it added.
SyncSubscriptions ==
    /\ runPc = "sync"
    /\ LET to_remove == ToRemove
           to_add == ToAdd(subscribed_topics \ to_remove)
           bad == {t \in to_add : ~ValidQos(QosOf(config[t]))}
       IN
       /\ syncStart' = subscribed_topics
       /\ repeat' = (lastKeys.valid /\ lastKeys.keys = CurrentTopics)
       /\ IF bad = {}
          THEN /\ transport' = TransportAfter(to_remove, to_add)
               /\ subscribed_topics' = (subscribed_topics \ to_remove) \cup to_add
               /\ syncOps' = Calls(to_remove, to_add)
               /\ lastKeys' = [valid |-> TRUE, keys |-> CurrentTopics]
               /\ runPc' = "sleep"
               /\ UNCHANGED crashCause
          ELSE \E b \in bad, added \in SUBSET (to_add \ bad) :
               /\ transport' = TransportAfter(to_remove, added)
               /\ subscribed_topics' = (subscribed_topics \ to_remove) \cup added
               /\ syncOps' = Calls(to_remove, added \cup {b})
               /\ Crash("subscribe")
               /\ UNCHANGED lastKeys
    /\ UNCHANGED <<config, last_config_mtime, lastGood>>
    /\ UNCHANGED <<envVars, msgVars>>
    /\ UNCHANGED valVars

\* run line 205: time.sleep(...), then the next cycle.
RunSleep ==
    /\ runPc = "sleep"
    /\ runPc' = "check"
    /\ syncOps' = {}
    /\ syncStart' = {}
    /\ repeat' = FALSE
    /\ UNCHANGED <<config, last_config_mtime, subscribed_topics, transport,
                   lastKeys, crashCause, lastGood>>
    /\ UNCHANGED <<envVars, msgVars>>
    /\ UNCHANGED valVars

\* ------------------------------------------------------- _load_callback
\* self.callback_cache.get(callback_path): None when the path has no entry.
CacheGet(p) == IF p \in DOMAIN callback_cache THEN callback_cache[p] ELSE NoCache

\* Line 116: `not cached or current_mtime != cached[1]`.
NeedsLoad_Always(cached, mtime) == TRUE
NeedsLoad_OnceOnly(cached, mtime) == cached = NoCache
NeedsLoad_IfNewer(cached, mtime) == cached = NoCache \/ mtime > cached.mtime
NeedsLoad(cached, mtime) == cached = NoCache \/ mtime # cached.mtime

\* Line 130: self.callback_cache[callback_path] = (module.callback, current_mtime).
CachePut(p, func, mtime) ==
    [q \in DOMAIN callback_cache \cup {p} |->
        IF q = p THEN [func |-> func, mtime |-> mtime] ELSE callback_cache[q]]

\* Lines 119-123: spec_from_file_location and exec_module succeed.
Imports(content) == content \notin {"missing", "broken"}

\* _validate_callback_signature accepts the module.
Validates_Unchecked(content) == TRUE
Validates(content) == content \in ValidContents

\* Lines 117-135 on a file that imports and validates: the callable to cache.
LoadedFunc(p) == [id |-> loadCount + 1, beh |-> hFile[p].content, src |-> hFile[p].mtime]

\* The file holds a valid handler that is not the code the cached callable
\* was loaded from.
Stale(cached, file) ==
    /\ cached # NoCache
    /\ file.content \in ValidContents
    /\ cached.func.beh # file.content

\* An exception leaves _on_message and reaches the transport's thread.
Escape(kind) ==
    /\ msgPc' = "faulted"
    /\ outcome' = [kind |-> kind, afterRaise |-> outcome.kind = "raised",
                   elapsed |-> FALSE]
    /\ topic_config' = NoEntry
    /\ current_mtime' = 0
    /\ cb' = NoFunc
    /\ resolved' = NoResolve

\* _load_callback returns func to _on_message (line 149).
Return(p, func) ==
    /\ cb' = func
    /\ lastRet' = [lastRet EXCEPT ![p] = func]
    /\ msgPc' = "invoke"

\* ----------------------------------------------------------- _on_message
\* Line 143: self.config.get("topics", {}).get(msg.topic), one read of
\* self.config and one lookup in the object it refers to.
Lookup_Torn(t) ==
    IF t \in DOMAIN config
    THEN [callback_path |-> config[t].callback_path,
          qos |-> IF t \in DOMAIN cfgFile.content
                  THEN cfgFile.content[t].qos ELSE Absent]
    ELSE NoEntry
Lookup(t) == IF t \in DOMAIN config THEN config[t] ELSE NoEntry

\* Lines 141-149: a message arrives on topic t; its entry is looked up in
\* the current configuration and its callback_path is read.
OnMessage(t) ==
    /\ msgPc = "idle"
    /\ runPc # "ctor"
    /\ LET entry == Lookup(t) IN
       IF Falsy(entry)
       THEN /\ outcome' = [kind |-> "unconfigured",
                           afterRaise |-> outcome.kind = "raised",
                           elapsed |-> FALSE]
            /\ UNCHANGED <<msgPc, topic_config, current_mtime, cb, resolved>>
       ELSE IF entry.callback_path = NoPath
       THEN Escape("KeyError")
       ELSE /\ topic_config' = entry
            /\ msgPc' = "stat"
            /\ UNCHANGED <<current_mtime, cb, resolved, outcome>>
    /\ UNCHANGED <<callback_cache, loadCount, lastRet>>
    /\ UNCHANGED <<envVars, runVars>>
    /\ UNCHANGED valVars

\* Lines 112-116 and 137: stat the handler file, look the path up in the
\* cache, and return the cached callable when the modification times agree.
LoadCallbackStat ==
    /\ msgPc = "stat"
    /\ LET p == topic_config.callback_path
           cached == CacheGet(p)
           mtime == hFile[p].mtime
       IN
       IF hFile[p].content = "missing"
       THEN Escape("FileNotFoundError") /\ UNCHANGED <<lastRet, touched>>
       ELSE /\ touched' = [touched EXCEPT ![p] = FALSE]
            /\ current_mtime' = mtime
            /\ resolved' = [kind |-> IF NeedsLoad(cached, mtime) THEN "loading" ELSE "hit",
                            path |-> p, cache |-> callback_cache,
                            untouched |-> ~touched[p],
                            stale |-> Stale(cached, hFile[p]),
                            prev |-> lastRet[p],
                            loads |-> loadCount]
            /\ IF NeedsLoad(cached, mtime)
               THEN msgPc' = "load" /\ UNCHANGED <<cb, lastRet>>
               ELSE Return(p, cached.func)
            /\ UNCHANGED <<topic_config, outcome>>
    /\ UNCHANGED <<callback_cache, loadCount>>
    /\ UNCHANGED <<cfgFile, hFile, connected, events>>
    /\ UNCHANGED runVars
    /\ UNCHANGED valVars

\* Lines 117-137: import the module, validate it, cache it; on any failure
\* return the default callback.
LoadCallbackLoad ==
    /\ msgPc = "load"
    /\ LET p == topic_config.callback_path
           content == hFile[p].content
       IN
       IF ~Imports(content)
       THEN /\ resolved' = [resolved EXCEPT !.kind = "import_failed"]
            /\ Return(p, callback)
            /\ UNCHANGED <<callback_cache, loadCount>>
       ELSE IF ~Validates(content)
       THEN /\ resolved' = [resolved EXCEPT !.kind = "invalid"]
            /\ Return(p, callback)
            /\ UNCHANGED <<callback_cache, loadCount>>
       ELSE /\ loadCount' = loadCount + 1
            /\ callback_cache' = CachePut(p, LoadedFunc(p), current_mtime)
            /\ resolved' = [resolved EXCEPT !.kind = "loaded"]
            /\ Return(p, LoadedFunc(p))
    /\ UNCHANGED <<topic_config, current_mtime, outcome>>
    /\ UNCHANGED <<envVars, runVars>>
    /\ UNCHANGED valVars

\* Lines 153-171, how the call of func ends: the callback raises and the
\* except clause logs it ("raised"), it returns Ok ("success") or Err
\* ("failure"), or it returns a value without is_ok and line 162 raises.
Handled_NoTry(func) ==
    IF func.beh = "raise" THEN "Exception"
    ELSE IF func.beh = "ok" THEN "success"
    ELSE IF func.beh = "err" THEN "failure"
    ELSE "AttributeError"
Handled(func) ==
    IF func.beh = "raise" THEN "raised"
    ELSE IF func.beh = "ok" THEN "success"
    ELSE IF func.beh = "err" THEN "failure"
    ELSE "AttributeError"

\* _on_message returns to the transport.
Done(kind, logged) ==
    /\ msgPc' = "idle"
    /\ outcome' = [kind |-> kind, afterRaise |-> outcome.kind = "raised",
                   elapsed |-> logged]
    /\ topic_config' = NoEntry
    /\ current_mtime' = 0
    /\ cb' = NoFunc
    /\ resolved' = NoResolve

\* Lines 153-175: call the callback inside try/except, then read the result.
Invoke ==
    /\ msgPc = "invoke"
    /\ IF Handled(cb) = "raised" THEN Done("raised", FALSE)
       ELSE IF Handled(cb) \in {"success", "failure"} THEN Done(Handled(cb), TRUE)
       ELSE Escape(Handled(cb))
    /\ UNCHANGED <<callback_cache, loadCount, lastRet>>
    /\ UNCHANGED <<envVars, runVars>>
    /\ UNCHANGED valVars

\* The validator on its own: handed any module, it returns its verdict.
InitValidate ==
    /\ Constructed
    /\ module \in Modules
    /\ verdict = "none"

Validate ==
    /\ verdict = "none"
    /\ verdict' = IF ValidateCallbackSignature(module) THEN "accepted" ELSE "rejected"
    /\ UNCHANGED module
    /\ UNCHANGED <<envVars, runVars, msgVars>>

NextValidate == Validate

SpecValidate == InitValidate /\ [][NextValidate]_vars

Next ==
    \/ EditConfig
    \/ EditHandler
    \/ Network
    \/ CtorStat
    \/ RunCheck
    \/ RunLoad
    \/ RunStat
    \/ SyncSubscriptions
    \/ RunSleep
    \/ \E t \in Topics : OnMessage(t)
    \/ LoadCallbackStat
    \/ LoadCallbackLoad
    \/ Invoke

Spec == Init /\ [][Next]_vars

\* run() is the main thread's loop: as long as no exception has left it,
\* its next step is eventually taken.
Run == CtorStat \/ RunCheck \/ RunLoad \/ RunStat \/ SyncSubscriptions \/ RunSleep

FairSpec == Spec /\ WF_vars(Run)

\* ------------------------------------------------------------------ claims
\* The topics a reconcile unsubscribed, and those it subscribed.
Unsubscribed == {o.topic : o \in {c \in syncOps : c.op = "unsubscribe"}}
Subscribed == {o.topic : o \in {c \in syncOps : c.op = "subscribe"}}

\* C1: when _sync_subscriptions returns, subscribed_topics is exactly the
\* key set of the configuration's topics: every topic that was subscribed
\* and is no longer configured has been unsubscribed, every configured topic
\* that was not subscribed has been subscribed, and nothing else remains.
C1_ReconcileMatchesConfig ==
    runPc = "sleep" =>
        /\ subscribed_topics = DOMAIN config
        /\ Unsubscribed = syncStart \ DOMAIN config
        /\ Subscribed = DOMAIN config \ syncStart

\* A reconcile has returned after a reload replaced the configuration, with
\* a topic to remove and a topic to add.
C1_Witness ==
    /\ runPc = "sleep"
    /\ config # CfgOne
    /\ syncStart \ DOMAIN config # {}
    /\ DOMAIN config \ syncStart # {}
    /\ subscribed_topics = DOMAIN config

\* C2: a reconcile that begins with the desired topic set its predecessor
\* returned with issues no transport call, leaves subscribed_topics as it
\* found it, and returns.
C2_ReconcileIdempotent ==
    repeat =>
        /\ runPc = "sleep"
        /\ syncOps = {}
        /\ subscribed_topics = syncStart

\* A second reconcile in a row has returned, with topics subscribed.
C2_Witness ==
    /\ repeat
    /\ runPc = "sleep"
    /\ subscribed_topics # {}
    /\ syncOps = {}

\* C3: no exception leaves _on_message: whatever the configuration, the
\* handler file and the handler do, the call returns to the transport.
C3_DispatcherNeverRaises ==
    msgPc # "faulted"

\* C4: a handler file that is missing when the message arrives makes the
\* dispatcher fall back to the default callback; no FileNotFoundError
\* leaves _on_message.
C4_MissingFileFallsBack ==
    ~(msgPc = "faulted" /\ outcome.kind = "FileNotFoundError")

\* C5: a configuration file that has changed and fails to load does not
\* end the reload loop: run() goes on with the stale configuration.
C5_FailedReloadKeepsLooping ==
    ~(runPc = "crashed" /\ crashCause = "load_config")

\* C6: a failed load never clobbers the snapshot: self.config, which
\* _on_message reads, is always the result of the last successful load,
\* also after a reload attempt has failed.
C6_FailedLoadKeepsSnapshot ==
    /\ config = lastGood
    /\ config \in Configs

\* A reload attempt has failed on a file that does not parse, and the
\* snapshot loaded before it is still in place.
C6_Witness ==
    /\ crashCause = "load_config"
    /\ cfgFile.state # "ok"
    /\ config = CfgOne

\* The cache entry _load_callback found for its path when it was called.
Before ==
    IF resolved.path \in DOMAIN resolved.cache
    THEN resolved.cache[resolved.path] ELSE NoCache

\* C7: when _load_callback returns for a path whose file has not been
\* written since the previous _load_callback of that path stat'ed it, and
\* that previous call returned a loaded callable, it returns that same
\* callable from the cache, without a load: the load counter is as it was.
C7_UnchangedFileServedFromCache ==
    (msgPc = "invoke" /\ resolved.untouched /\ resolved.prev.id > 0) =>
        /\ resolved.kind = "hit"
        /\ cb = resolved.prev
        /\ cb = Before.func
        /\ loadCount = resolved.loads
        /\ callback_cache = resolved.cache

\* A second _load_callback of an unwritten file has returned the callable
\* the first one loaded.
C7_Witness ==
    /\ msgPc = "invoke"
    /\ resolved.untouched
    /\ resolved.prev.id > 0
    /\ resolved.kind = "hit"
    /\ cb = resolved.prev

\* C8 as claimed: after a cached handler's file has been changed to
\* another valid handler than the one the cached callable was loaded from,
\* the next _load_callback of its path reloads once and returns another
\* callable than the cached one.
C8_WrittenFileIsReloaded ==
    (/\ msgPc = "invoke"
     /\ resolved.stale
     /\ resolved.kind \in {"hit", "loaded"}) =>
        /\ resolved.kind = "loaded"
        /\ cb # Before.func
        /\ loadCount = resolved.loads + 1

\* C8 as amended: the cached callable is returned exactly when the entry's
\* modification time equals the one the stat gave; when they differ and
\* the file loads and validates, _load_callback loads once, returns a
\* callable that is not the cached one, and replaces the entry with that
\* callable and the modification time the stat gave.
C8_ChangedMtimeIsReloaded ==
    msgPc = "invoke" =>
        /\ (resolved.kind = "hit") <=> (Before # NoCache /\ Before.mtime = current_mtime)
        /\ resolved.kind = "hit" => cb = Before.func /\ loadCount = resolved.loads
        /\ resolved.kind = "loaded" =>
              /\ cb # Before.func
              /\ cb.id > 0
              /\ loadCount = resolved.loads + 1
              /\ CacheGet(resolved.path) = [func |-> cb, mtime |-> current_mtime]

\* A cached handler's file was written with another modification time and
\* _load_callback has reloaded it.
C8_Witness ==
    /\ msgPc = "invoke"
    /\ resolved.stale
    /\ Before # NoCache
    /\ Before.mtime # current_mtime
    /\ resolved.kind = "loaded"
    /\ cb # Before.func
    /\ CacheGet(resolved.path) = [func |-> cb, mtime |-> current_mtime]

\* C9: when the import or the validation of the handler file fails,
\* _load_callback returns the default callback and leaves callback_cache as
\* it found it; every cache entry holds a callable that was loaded and
\* validated, so a path that never loaded has no entry.
C9_FailedLoadLeavesCache ==
    /\ (msgPc = "invoke" /\ resolved.kind \in {"import_failed", "invalid"}) =>
            /\ cb = callback
            /\ callback_cache = resolved.cache
            /\ loadCount = resolved.loads
    /\ \A p \in DOMAIN callback_cache :
            /\ callback_cache[p].func.id \in 1..loadCount
            /\ callback_cache[p].func.beh \in ValidContents

\* _load_callback has failed on a file that does not validate, for a path
\* that never loaded: the default callback is returned, the cache is empty.
C9_Witness ==
    /\ msgPc = "invoke"
    /\ resolved.kind = "invalid"
    /\ cb = callback
    /\ resolved.path \notin DOMAIN callback_cache

\* C10: a callback that raises is isolated: _on_message logs and returns
\* to the transport, ready for the next message, and the call changes
\* nothing of the cache, the configuration or the subscriptions.
C10_HandlerFaultIsolated ==
    [][(msgPc = "invoke" /\ cb.beh = "raise" /\ msgPc' # "invoke") =>
            /\ msgPc' = "idle"
            /\ outcome'.kind = "raised"
            /\ UNCHANGED <<callback_cache, loadCount, lastRet>>
            /\ UNCHANGED runVars]_vars

\* After a callback raised, the next message was dispatched to its handler,
\* which returned Ok.
C10_Witness ==
    /\ outcome.afterRaise
    /\ outcome.kind = "success"
    /\ msgPc = "idle"

\* C11: a message on a topic that is no key of the configuration's topics
\* makes _on_message log and return: no _load_callback, no call of any
\* callback (loaded or default), no exception, and the cache as it was.
C11_UnconfiguredTopicIgnored ==
    [][\A t \in Topics : (t \notin DOMAIN config /\ OnMessage(t)) =>
            /\ msgPc' = "idle"
            /\ outcome'.kind = "unconfigured"
            /\ ~outcome'.elapsed
            /\ UNCHANGED <<callback_cache, loadCount, lastRet, cb, resolved,
                           topic_config, current_mtime>>
            /\ UNCHANGED runVars]_vars

\* With the configuration never edited (only t1 configured) and a handler
\* in the cache, a message on t2 has been logged and dropped.
C11_Witness ==
    /\ events = 0
    /\ config = CfgOne
    /\ outcome.kind = "unconfigured"
    /\ msgPc = "idle"
    /\ "h1" \in DOMAIN callback_cache

\* C12: a subscribe or unsubscribe call that fails for one topic does not
\* keep the reconcile from handling every other topic of to_remove and
\* to_add, and does not end run(): a reconcile in which a call failed has
\* returned with every configured topic handled.
C12_SubscribeFailureIsolated ==
    (\E o \in syncOps : ~ValidQos(o.qos)) =>
        /\ runPc = "sleep"
        /\ crashCause = "none"
        /\ Subscribed = DOMAIN config \ syncStart

\* The shape contract of a handler module: a function callback whose
\* three parameters client, userdata, msg are positional and carry no
\* default, annotated to return the union of Ok[bool] and Err[str].
ShapeContract(m) ==
    /\ m.attr = "function"
    /\ m.params = <<"client", "userdata", "msg">>
    /\ m.kind \in {"POSITIONAL_OR_KEYWORD", "POSITIONAL_ONLY"}
    /\ ~m.default
    /\ m.returns = ResultBoolStr

\* C13: _validate_callback_signature accepts a module if and only if it
\* satisfies the whole shape contract; every deviation is rejected.
C13_ValidationIsShapeContract ==
    verdict # "none" => (verdict = "accepted" <=> ShapeContract(module))

\* The configuration file parses, every QoS it gives is one the transport
\* takes, and the client is connected: loads and transport calls succeed.
AllSucceeds ==
    /\ cfgFile.state = "ok"
    /\ connected
    /\ \A t \in DOMAIN cfgFile.content : ValidQos(QosOf(cfgFile.content[t]))

\* C14: with loads and transport calls succeeding throughout, whenever and
\* with whatever modification time the configuration file is written, the
\* loop eventually holds the file's latest content and subscribed_topics
\* eventually equals the key set of its topics.
C14_EveryEditEventuallySynced ==
    []AllSucceeds =>
        <>[](config = cfgFile.content /\ subscribed_topics = DOMAIN cfgFile.content)

\* C15: when _sync_subscriptions has returned, every topic of
\* subscribed_topics that the transport holds a subscription for is held
\* at the QoS the current configuration gives it (0 without a qos key),
\* also a topic that stayed configured while its qos changed.
C15_SubscribedAtConfiguredQos ==
    runPc = "sleep" =>
        \A t \in subscribed_topics :
            transport[t] # NoSub => transport[t] = QosOf(config[t])

\* C16: every _on_message that called a callback has logged the elapsed
\* time, whether the callback returned Ok, returned Err or raised.
C16_ElapsedAlwaysLogged ==
    outcome.kind \in {"success", "failure", "raised"} => outcome.elapsed

\* The topic entries of a configuration.
Entries(c) == {c[t] : t \in DOMAIN c}

\* C17: no reader sees a mix of two configurations.  The entry
\* _on_message looks up is a whole entry of the configuration current at
\* the lookup, it stays the entry of that call whatever run() loads
\* meanwhile, and the callback_path handed to _load_callback is that
\* entry's; the subscribe calls of one reconcile carry the topics and the
\* QoS values of the one configuration the reconcile ran on.
C17_ReadersSeeOneSnapshot ==
    [][/\ (msgPc = "idle" /\ msgPc' = "stat") => topic_config' \in Entries(config)
       /\ (msgPc \in {"stat", "load"} /\ msgPc' \in {"load", "invoke"}) =>
              /\ topic_config' = topic_config
              /\ resolved'.path = topic_config.callback_path
       /\ (runPc = "sync" /\ runPc' = "sleep") =>
              /\ config' = config
              /\ Subscribed' = DOMAIN config \ subscribed_topics
              /\ \A o \in syncOps' : o.op = "subscribe" =>
                     o.qos = QosOf(config[o.topic])]_vars

\* run() has replaced the configuration while a message was between its
\* lookup and the call of its callback: the call goes on with the entry of
\* the configuration it looked up, which the new one no longer holds.
C17_Witness ==
    /\ msgPc = "invoke"
    /\ topic_config \notin Entries(config)
    /\ topic_config \in Entries(CfgOne)
    /\ resolved.path = topic_config.callback_path

\* C18: every cache entry pairs its callable with the modification time of
\* the file version that callable was loaded from.
C18_EntryPairsCallableWithItsMtime ==
    \A p \in DOMAIN callback_cache :
        callback_cache[p].func.src = callback_cache[p].mtime

\* C19: when _load_callback returns for a path that has a cache entry,
\* whose file now holds a version that fails to import or to validate
\* under another modification time than the entry's, it has made a load
\* attempt that failed and returns the default callback, not the cached
\* callable; the entry is left as it was.
C19_BrokenFileServesDefault ==
    (/\ msgPc = "invoke"
     /\ Before # NoCache
     /\ Before.mtime # current_mtime
     /\ ~touched[resolved.path]
     /\ hFile[resolved.path].content \in {"broken", "invalid"}) =>
        /\ resolved.kind \in {"import_failed", "invalid"}
        /\ cb = callback
        /\ cb # Before.func
        /\ callback_cache = resolved.cache
        /\ CacheGet(resolved.path) = Before
        /\ loadCount = resolved.loads

\* A cached handler's file was replaced by one that does not validate;
\* the resolve before this one already returned the default callback, and
\* this one attempted the load again and returns the default callback too.
C19_Witness ==
    /\ msgPc = "invoke"
    /\ Before # NoCache
    /\ Before.mtime # current_mtime
    /\ ~touched[resolved.path]
    /\ hFile[resolved.path].content = "invalid"
    /\ resolved.prev = callback
    /\ resolved.kind = "invalid"
    /\ cb = callback
    /\ CacheGet(resolved.path) = Before

\* C20: when _sync_subscriptions has returned, subscribed_topics holds
\* exactly the topics the transport holds a subscription for: a topic whose
\* subscribe was refused is not recorded, a topic whose unsubscribe was
\* refused is not dropped.
C20_SubscribedOnlyIfAccepted ==
    runPc = "sleep" => subscribed_topics = {t \in Topics : transport[t] # NoSub}
====
